---- MODULE Spec2Model ----
(***************************************************************************)
(* Slitherlink3D: the polyhedron topology store (Grid), the puzzle overlay *)
(* (PuzzleGrid) and the solution checker (PuzzleGrid.checkUserSolution).   *)
(*                                                                         *)
(* JavaScript Maps and Sets are modelled as functions and sets.  A Map or  *)
(* Set iterates in insertion order; edge IDs are handed out in increasing  *)
(* order and vertex/face IDs are array indices added in increasing order,  *)
(* so insertion order is increasing ID order wherever the code iterates.   *)
(***************************************************************************)
EXTENDS Integers, Sequences, FiniteSets, TLC

VARIABLES
    vertices,           \* Grid.vertices: vertex ID -> [edgeIDs, faceIDs]
    edges,              \* Grid.edges: edge ID -> [vertexIDs, faceIDs, userGuess]
    faces,              \* Grid.faces: face ID -> [vertexIDs, edgeIDs, index, clue]
    vertexPairToEdge,   \* Grid.vertexPairToEdge: hash -> edge ID
    nextId,             \* Grid.nextId
    puzzleData,         \* PuzzleGrid.puzzleData (NoData = null)
    currentPuzzleIndex, \* PuzzleGrid.currentPuzzleIndex
    gridId,             \* PuzzleGrid.gridId (NoGridId = null)
    polyhedronGridId,   \* polyhedronData.gridId: the grid ID of the mesh being loaded
    edgeColor,          \* edge ID -> material.color of the edge's mesh (edgeMeshMap)
    lastOp,             \* the operation that ran last, with its arguments
    thrown,             \* the error the last operation raised, or NoError
    status,             \* checkUserSolution's status when it returned
    failure,            \* the failures checkUserSolution logged
    clicks,             \* number of edge clicks handled so far
    didDrag,            \* makeInteraction: didDrag
    highlightedFace,    \* makeInteraction: highlightedFace (Null = null)
    isHighlighted,      \* the faces whose metadata.isHighlighted is true
    meshLoad,           \* the promise of loadPolyhedronFromJSON in createGameState
    puzzleLoad          \* the promise of loadPuzzleData in createGameState

vars == <<vertices, edges, faces, vertexPairToEdge, nextId, puzzleData,
          currentPuzzleIndex, gridId, polyhedronGridId, edgeColor,
          lastOp, thrown, status, failure, clicks,
          didDrag, highlightedFace, isHighlighted, meshLoad, puzzleLoad>>

gridVars == <<vertices, edges, faces, vertexPairToEdge, nextId>>
puzzleVars == <<puzzleData, currentPuzzleIndex, gridId>>
checkVars == <<status, failure, clicks>>
uiVars == <<didDrag, highlightedFace, isHighlighted>>
loadVars == <<meshLoad, puzzleLoad>>

(***************************************************************************)
(* Bounds of the model.                                                    *)
(***************************************************************************)
MaxVertices == 4        \* vertex IDs 0 .. MaxVertices-1 may be registered
MaxFaces == 2           \* face IDs 0 .. MaxFaces-1 may be added
MaxFaceLen == 3         \* longest vertex list handed to addFace

(***************************************************************************)
(* Values of the program.                                                  *)
(***************************************************************************)
Null == -1              \* findEdgeByVertices: "result ?? null"
Undefined == -2         \* a metadata field that was never assigned
NoClue == -1            \* clue: -1, "No clue by default"
Unknown == 0            \* userGuess 0 = unknown
FilledIn == 1           \* userGuess 1 = filled in
RuledOut == 2           \* userGuess 2 = ruled out
NumEdgeStates == 3      \* EDGE_STATES.length
NoData == [null |-> TRUE]    \* puzzleData = null
NoGridId == "null"          \* gridId = null
NoError == "none"
TypeError == "TypeError"

EmptyMap == [x \in {} |-> 0]

Put(f, k, v) == [x \in (DOMAIN f) \cup {k} |-> IF x = k THEN v ELSE f[x]]

Range(s) == {s[i] : i \in DOMAIN s}

TheGrid ==
    [vertices |-> vertices, edges |-> edges, faces |-> faces,
     vertexPairToEdge |-> vertexPairToEdge, nextId |-> nextId]

EmptyGrid ==
    [vertices |-> EmptyMap, edges |-> EmptyMap, faces |-> EmptyMap,
     vertexPairToEdge |-> EmptyMap, nextId |-> 0]

(***************************************************************************)
(* 32-bit integer arithmetic of JavaScript's << and | operators.           *)
(***************************************************************************)
MinInt32 == -2147483647 - 1

\* a | b for 0 <= a, b < 2^31
RECURSIVE BitOrNat(_, _)
BitOrNat(a, b) ==
    IF a = 0 THEN b
    ELSE IF b = 0 THEN a
    ELSE (IF a % 2 = 1 \/ b % 2 = 1 THEN 1 ELSE 0) + 2 * BitOrNat(a \div 2, b \div 2)

\* a | b on int32 values
BitOr(a, b) ==
    IF a >= 0 /\ b >= 0 THEN BitOrNat(a, b)
    ELSE MinInt32 + BitOrNat(IF a < 0 THEN a - MinInt32 ELSE a,
                             IF b < 0 THEN b - MinInt32 ELSE b)

\* x << 16 on an int32 value x >= 0: the low 16 bits move up, bit 15 becomes the sign
Shl16(x) ==
    LET lo == x % 65536
    IN  IF lo < 32768 THEN lo * 65536 ELSE (lo - 32768) * 65536 + MinInt32

(***************************************************************************)
(* Grid                                                                    *)
(***************************************************************************)
addVertex(g, id) ==
    [g EXCEPT !.vertices = Put(@, id, [edgeIDs |-> {}, faceIDs |-> {}])]

\* Mutant: the pair is packed in argument order, not smaller ID first.
hashVertexPairUnordered(v1Id, v2Id) == BitOr(Shl16(v1Id), v2Id)

hashVertexPair(v1Id, v2Id) ==
    LET small == IF v1Id < v2Id THEN v1Id ELSE v2Id
        large == IF v1Id < v2Id THEN v2Id ELSE v1Id
    IN  BitOr(Shl16(small), large)

findEdgeByVertices(g, v1Id, v2Id) ==
    LET hash == hashVertexPair(v1Id, v2Id)
    IN  IF hash \in DOMAIN g.vertexPairToEdge THEN g.vertexPairToEdge[hash] ELSE Null

\* Mutant: the new edge is not recorded in the lookup index.
addEdgeNoIndex(g, v1Id, v2Id, userGuess) ==
    LET id == g.nextId
        newEdge == [vertexIDs |-> <<v1Id, v2Id>>, faceIDs |-> {}, userGuess |-> userGuess]
        g1 == [g EXCEPT !.nextId = id + 1, !.edges = Put(@, id, newEdge)]
    IN  IF v1Id \notin DOMAIN g1.vertices \/ v2Id \notin DOMAIN g1.vertices
        THEN [g |-> g1, id |-> id, thrown |-> TypeError]
        ELSE [g |-> [g1 EXCEPT !.vertices[v1Id].edgeIDs = @ \cup {id},
                               !.vertices[v2Id].edgeIDs = @ \cup {id}],
              id |-> id, thrown |-> NoError]

\* The result is [g, id, thrown]: vertices.get(v).edgeIDs raises a TypeError for
\* an unregistered v, after the edge and its hash entry have been stored.
addEdge(g, v1Id, v2Id, userGuess) ==
    LET id == g.nextId
        newEdge == [vertexIDs |-> <<v1Id, v2Id>>, faceIDs |-> {}, userGuess |-> userGuess]
        g1 == [g EXCEPT !.nextId = id + 1,
                        !.edges = Put(@, id, newEdge),
                        !.vertexPairToEdge = Put(@, hashVertexPair(v1Id, v2Id), id)]
    IN  IF v1Id \notin DOMAIN g1.vertices
        THEN [g |-> g1, id |-> id, thrown |-> TypeError]
        ELSE LET g2 == [g1 EXCEPT !.vertices[v1Id].edgeIDs = @ \cup {id}]
             IN  IF v2Id \notin DOMAIN g2.vertices
                 THEN [g |-> g2, id |-> id, thrown |-> TypeError]
                 ELSE [g |-> [g2 EXCEPT !.vertices[v2Id].edgeIDs = @ \cup {id}],
                       id |-> id, thrown |-> NoError]

\* The lookup-or-create step of addFace's loop body: findEdgeByVertices, and
\* addEdge only when it returned null.  The result is [g, id, thrown].
ensureEdge(g, v1Id, v2Id) ==
    LET edgeId == findEdgeByVertices(g, v1Id, v2Id)
    IN  IF edgeId = Null THEN addEdge(g, v1Id, v2Id, Undefined)
        ELSE [g |-> g, id |-> edgeId, thrown |-> NoError]

\* Mutant: the last pair does not wrap around to the first vertex.
nextInCycleNoWrap(vertexIDs, i) ==
    vertexIDs[IF i < Len(vertexIDs) THEN i + 1 ELSE Len(vertexIDs)]

\* The second endpoint of the i-th pair (1-based) of a cyclic vertex list.
nextInCycle(vertexIDs, i) == vertexIDs[(i % Len(vertexIDs)) + 1]

\* Mutant: the face replaces the edge's face set instead of joining it.
addFaceToEdgeReplace(g, edgeId, id) == [g EXCEPT !.edges[edgeId].faceIDs = {id}]

\* edges.get(edgeId).faceIDs.add(id)
addFaceToEdge(g, edgeId, id) == [g EXCEPT !.edges[edgeId].faceIDs = @ \cup {id}]

\* The for loop of addFace from index i on (1-based); edgeIDs collects the result.
RECURSIVE addFaceEdges(_, _, _, _, _)
addFaceEdges(g, vertexIDs, id, i, edgeIDs) ==
    IF i > Len(vertexIDs) THEN [g |-> g, edgeIDs |-> edgeIDs, thrown |-> NoError]
    ELSE
        LET r == ensureEdge(g, vertexIDs[i], nextInCycle(vertexIDs, i))
        IN  IF r.thrown # NoError
            THEN [g |-> r.g, edgeIDs |-> edgeIDs, thrown |-> r.thrown]
            ELSE addFaceEdges(addFaceToEdge(r.g, r.id, id), vertexIDs, id, i + 1,
                              Append(edgeIDs, r.id))

\* The closing loop of addFace: vertices.get(vId).faceIDs.add(id).
RECURSIVE addFaceVertices(_, _, _, _)
addFaceVertices(g, vertexIDs, id, i) ==
    IF i > Len(vertexIDs) THEN [g |-> g, thrown |-> NoError]
    ELSE IF vertexIDs[i] \notin DOMAIN g.vertices THEN [g |-> g, thrown |-> TypeError]
    ELSE addFaceVertices([g EXCEPT !.vertices[vertexIDs[i]].faceIDs = @ \cup {id}],
                         vertexIDs, id, i + 1)

\* The result is [g, thrown].  metadata is [index, clue].
addFace(g, vertexIDs, metadata, id) ==
    LET loop == addFaceEdges(g, vertexIDs, id, 1, <<>>)
    IN  IF loop.thrown # NoError THEN [g |-> loop.g, thrown |-> loop.thrown]
        ELSE LET face == [vertexIDs |-> vertexIDs, edgeIDs |-> loop.edgeIDs,
                          index |-> metadata.index, clue |-> metadata.clue]
                 g1 == [loop.g EXCEPT !.faces = Put(@, id, face)]
             IN  addFaceVertices(g1, vertexIDs, id, 1)

\* Mutant: the face itself is not left out.
getAdjacentFacesWithSelf(g, faceId) ==
    IF faceId \notin DOMAIN g.faces THEN {}
    ELSE UNION {g.edges[edgeId].faceIDs : edgeId \in Range(g.faces[faceId].edgeIDs)}

getAdjacentFaces(g, faceId) ==
    IF faceId \notin DOMAIN g.faces THEN {}
    ELSE {fId \in UNION {g.edges[edgeId].faceIDs : edgeId \in Range(g.faces[faceId].edgeIDs)} :
             fId # faceId}

\* createPolyhedron: the vertices, then the faces with index i and no clue, then
\* userGuess = 0 on every edge.  A mesh is [gridId, numVertices, faces].  The
\* result is [g, thrown]; when a call raises, no grid is returned.
RECURSIVE addVerticesFrom(_, _, _)
addVerticesFrom(g, index, numVertices) ==
    IF index >= numVertices THEN g
    ELSE addVerticesFrom(addVertex(g, index), index + 1, numVertices)

\* Mutant: a face of two vertices is let through.
RECURSIVE addFacesFromMin2(_, _, _)
addFacesFromMin2(g, faceLists, i) ==
    IF i > Len(faceLists) THEN [g |-> g, thrown |-> NoError]
    ELSE IF Len(faceLists[i]) < 2 THEN [g |-> g, thrown |-> "Error: face must have at least 3 vertices"]
    ELSE LET r == addFace(g, faceLists[i], [index |-> i - 1, clue |-> NoClue], i - 1)
         IN  IF r.thrown # NoError THEN r ELSE addFacesFromMin2(r.g, faceLists, i + 1)

RECURSIVE addFacesFrom(_, _, _)
addFacesFrom(g, faceLists, i) ==
    IF i > Len(faceLists) THEN [g |-> g, thrown |-> NoError]
    ELSE IF Len(faceLists[i]) < 3 THEN [g |-> g, thrown |-> "Error: face must have at least 3 vertices"]
    ELSE LET r == addFace(g, faceLists[i], [index |-> i - 1, clue |-> NoClue], i - 1)
         IN  IF r.thrown # NoError THEN r ELSE addFacesFrom(r.g, faceLists, i + 1)

resetGuesses(g) ==
    [g EXCEPT !.edges = [eId \in DOMAIN g.edges |-> [g.edges[eId] EXCEPT !.userGuess = Unknown]]]

createPolyhedron(mesh) ==
    LET built == addFacesFrom(addVerticesFrom(EmptyGrid, 0, mesh.numVertices), mesh.faces, 1)
    IN  IF built.thrown # NoError THEN [g |-> EmptyGrid, thrown |-> built.thrown]
        ELSE [g |-> resetGuesses(built.g), thrown |-> NoError]

(***************************************************************************)
(* PuzzleGrid: the puzzle overlay.  Puzzle data is [gridId, puzzles], a    *)
(* puzzle is [clues, solution]; JavaScript indexes both from 0.            *)
(***************************************************************************)
At0(list, index) == list[index + 1]

\* An ascending list of the elements of a set of IDs: the iteration order of a
\* Map's keys or of a Set filled in increasing ID order.
RECURSIVE SetToSeq(_)
SetToSeq(S) ==
    IF S = {} THEN <<>>
    ELSE LET m == CHOOSE x \in S : \A y \in S : x <= y
         IN  <<m>> \o SetToSeq(S \ {m})

\* The result is [puzzleData, gridId, thrown]: puzzleData is stored before the
\* grid ID is compared.
setPuzzleData(oldGridId, newData, expectedGridId) ==
    IF expectedGridId # NoGridId /\ newData.gridId # expectedGridId
    THEN [puzzleData |-> newData, gridId |-> oldGridId, thrown |-> "Error: Grid ID mismatch"]
    ELSE [puzzleData |-> newData, gridId |-> newData.gridId, thrown |-> NoError]

\* Mutant: the index puzzles.length is accepted.
setCurrentPuzzleOffByOne(data, oldIndex, puzzleIndex) ==
    IF data = NoData
    THEN [currentPuzzleIndex |-> oldIndex, thrown |-> "Error: Puzzle data must be set"]
    ELSE IF puzzleIndex < 0 \/ puzzleIndex > Len(data.puzzles)
    THEN [currentPuzzleIndex |-> oldIndex, thrown |-> "Error: Invalid puzzle index"]
    ELSE [currentPuzzleIndex |-> puzzleIndex, thrown |-> NoError]

\* The result is [currentPuzzleIndex, thrown].
setCurrentPuzzle(data, oldIndex, puzzleIndex) ==
    IF data = NoData
    THEN [currentPuzzleIndex |-> oldIndex, thrown |-> "Error: Puzzle data must be set"]
    ELSE IF puzzleIndex < 0 \/ puzzleIndex >= Len(data.puzzles)
    THEN [currentPuzzleIndex |-> oldIndex, thrown |-> "Error: Invalid puzzle index"]
    ELSE [currentPuzzleIndex |-> puzzleIndex, thrown |-> NoError]

HasCurrentPuzzle(data, index) == data # NoData /\ index + 1 \in DOMAIN data.puzzles

\* puzzles[currentPuzzleIndex]; only used where HasCurrentPuzzle holds.
getCurrentPuzzle(data, index) == At0(data.puzzles, index)

\* Mutant: a clue above the number of edges of its face is accepted.
RECURSIVE applyCluesLoopNoUpperBound(_, _, _)
applyCluesLoopNoUpperBound(fs, clues, todo) ==
    IF todo = <<>> THEN [faces |-> fs, thrown |-> NoError]
    ELSE LET faceId == Head(todo)
             faceIndex == fs[faceId].index
             clue == IF faceIndex < Len(clues) THEN At0(clues, faceIndex) ELSE NoClue
         IN  IF clue # NoClue /\ clue < 0
             THEN [faces |-> fs, thrown |-> "Error: Invalid clue"]
             ELSE applyCluesLoopNoUpperBound([fs EXCEPT ![faceId].clue = clue], clues, Tail(todo))

\* Mutant: a face beyond the end of the clues array is an invalid clue.
RECURSIVE applyCluesLoopRequireAll(_, _, _)
applyCluesLoopRequireAll(fs, clues, todo) ==
    IF todo = <<>> THEN [faces |-> fs, thrown |-> NoError]
    ELSE LET faceId == Head(todo)
             faceIndex == fs[faceId].index
             numEdges == Len(fs[faceId].edgeIDs)
         IN  IF faceIndex >= Len(clues) THEN [faces |-> fs, thrown |-> "Error: Invalid clue"]
             ELSE IF At0(clues, faceIndex) # NoClue
                     /\ (At0(clues, faceIndex) < 0 \/ At0(clues, faceIndex) > numEdges)
             THEN [faces |-> fs, thrown |-> "Error: Invalid clue"]
             ELSE applyCluesLoopRequireAll([fs EXCEPT ![faceId].clue = At0(clues, faceIndex)],
                                           clues, Tail(todo))

\* The for loop of applyCurrentPuzzleClues over the faces still to visit.
\* The result is [faces, thrown]: a face visited before the offending one keeps
\* its new clue.
RECURSIVE applyCluesLoop(_, _, _)
applyCluesLoop(fs, clues, todo) ==
    IF todo = <<>> THEN [faces |-> fs, thrown |-> NoError]
    ELSE LET faceId == Head(todo)
             faceIndex == fs[faceId].index
             clue == IF faceIndex < Len(clues) THEN At0(clues, faceIndex) ELSE NoClue
             numEdges == Len(fs[faceId].edgeIDs)
         IN  IF clue # NoClue /\ (clue < 0 \/ clue > numEdges)
             THEN [faces |-> fs, thrown |-> "Error: Invalid clue"]
             ELSE applyCluesLoop([fs EXCEPT ![faceId].clue = clue], clues, Tail(todo))

\* The result is [faces, thrown].
applyCurrentPuzzleClues(fs, data, index) ==
    IF data = NoData THEN [faces |-> fs, thrown |-> "Error: No puzzle data available"]
    ELSE IF ~HasCurrentPuzzle(data, index) THEN [faces |-> fs, thrown |-> TypeError]
    ELSE LET puzzle == getCurrentPuzzle(data, index)
         IN  IF Len(puzzle.clues) > Cardinality(DOMAIN fs)
             THEN [faces |-> fs, thrown |-> "Error: Clues array length exceeds number of faces"]
             ELSE applyCluesLoop(fs, puzzle.clues, SetToSeq(DOMAIN fs))

\* Mutant: the pair (last, first) is not looked up.
RECURSIVE missingSolutionEdgeNoWrap(_, _, _)
missingSolutionEdgeNoWrap(g, solution, i) ==
    IF i >= Len(solution) THEN FALSE
    ELSE IF findEdgeByVertices(g, solution[i], solution[i + 1]) = Null THEN TRUE
    ELSE missingSolutionEdgeNoWrap(g, solution, i + 1)

\* The last loop of validatePuzzleSolution: TRUE when some cyclic pair from
\* position i on has no edge.
RECURSIVE missingSolutionEdge(_, _, _)
missingSolutionEdge(g, solution, i) ==
    IF i > Len(solution) THEN FALSE
    ELSE IF findEdgeByVertices(g, solution[i], solution[(i % Len(solution)) + 1]) = Null THEN TRUE
    ELSE missingSolutionEdge(g, solution, i + 1)

\* The result is the error raised, or NoError.
validatePuzzleSolution(g, data, index) ==
    IF data = NoData THEN "Error: No puzzle data available"
    ELSE IF ~HasCurrentPuzzle(data, index) THEN TypeError
    ELSE LET solution == getCurrentPuzzle(data, index).solution
         IN  IF Len(solution) < 3 \/ Len(solution) > Cardinality(DOMAIN g.vertices)
             THEN "Error: Solution length too small or exceeds number of vertices"
             ELSE IF Cardinality(Range(solution)) # Len(solution)
             THEN "Error: Solution contains duplicate vertices"
             ELSE IF \E i \in DOMAIN solution : solution[i] \notin DOMAIN g.vertices
             THEN "Error: Invalid vertex index in solution"
             ELSE IF missingSolutionEdge(g, solution, 1)
             THEN "Error: No edge found between vertices in solution"
             ELSE NoError

(***************************************************************************)
(* GameState.setupScene copies the grid into the PuzzleGrid and binds the  *)
(* puzzle; setupEdges gives every edge a mesh in the colour of its state.  *)
(***************************************************************************)
StateColor == <<"unknown", "filledIn", "ruledOut">>    \* EDGE_COLORS[EDGE_STATES[userGuess]]

\* createEdgeGeometry / setupEdges: one mesh per edge, coloured by userGuess.
createEdgeGeometry(g) == [eId \in DOMAIN g.edges |-> At0(StateColor, g.edges[eId].userGuess)]

\* GameState.setupScene on the grid createPolyhedron returned.  The result is
\* [g, puzzleData, currentPuzzleIndex, gridId, reached, thrown]: reached names
\* the call that raised, or "done".
setupScene(g, meshGridId, data, puzzleIndex) ==
    LET pd == setPuzzleData(NoGridId, data, meshGridId)
        cur == setCurrentPuzzle(pd.puzzleData, 0, puzzleIndex)
        applied == applyCurrentPuzzleClues(g.faces, pd.puzzleData, cur.currentPuzzleIndex)
        g1 == [g EXCEPT !.faces = applied.faces]
        valid == validatePuzzleSolution(g1, pd.puzzleData, cur.currentPuzzleIndex)
        Result(gr, i, reached, err) ==
            [g |-> gr, puzzleData |-> pd.puzzleData, currentPuzzleIndex |-> i,
             gridId |-> pd.gridId, reached |-> reached, thrown |-> err]
    IN  IF pd.thrown # NoError THEN Result(g, 0, "setPuzzleData", pd.thrown)
        ELSE IF cur.thrown # NoError THEN Result(g, 0, "setCurrentPuzzle", cur.thrown)
        ELSE IF applied.thrown # NoError
        THEN Result(g1, cur.currentPuzzleIndex, "applyCurrentPuzzleClues", applied.thrown)
        ELSE IF valid # NoError
        THEN Result(g1, cur.currentPuzzleIndex, "validatePuzzleSolution", valid)
        ELSE Result(g1, cur.currentPuzzleIndex, "done", NoError)

\* Meshes.  Tetrahedron is the example of docs/json-format.md, Cube is createCube.
Tetrahedron ==
    [gridId |-> "T", numVertices |-> 4,
     faces |-> << <<1, 3, 2>>, <<0, 1, 2>>, <<0, 2, 3>>, <<0, 3, 1>> >>]

Cube ==
    [gridId |-> "C", numVertices |-> 8,
     faces |-> << <<0, 2, 3, 1>>, <<0, 1, 5, 4>>, <<0, 4, 6, 2>>,
                  <<1, 3, 7, 5>>, <<2, 6, 7, 3>>, <<4, 5, 7, 6>> >>]

\* Three faces of the tetrahedron: vertices 1 and 3 are joined by no edge.
Open3 ==
    [gridId |-> "O", numVertices |-> 4,
     faces |-> << <<0, 1, 2>>, <<0, 2, 3>>, <<2, 1, 3>> >>]

\* Two triangles over a shared edge: vertices 1 and 3 are joined by no edge.
Kite ==
    [gridId |-> "K", numVertices |-> 4, faces |-> << <<0, 1, 2>>, <<0, 2, 3>> >>]

MaxClue == 4            \* clue values of the puzzle files run over -1 .. MaxClue
MaxSolutionLen == 5     \* longest solution list of the puzzle files

(***************************************************************************)
(* Start-up.  createPolyhedron builds the grid call by call: vertex and    *)
(* face IDs are the array indices, so each is used once and in order; the  *)
(* vertex lists of the faces come from the mesh file unchecked.  An        *)
(* exception leaves createPolyhedron, so no call follows a failed one.     *)
(* GameState.setupScene then binds the puzzle file to the finished grid.   *)
(* The mesh "S" is built one call at a time from any vertex lists; Open3,  *)
(* Kite and Cube start with all their calls made.                          *)
(***************************************************************************)
VertexIds == 0 .. MaxVertices - 1
FaceIds == 0 .. MaxFaces - 1

SeqsOfLen(S, n) == [1 .. n -> S]

SeqsUpTo(S, n) == UNION {SeqsOfLen(S, k) : k \in 0 .. n}

FaceLists == UNION {SeqsOfLen(VertexIds, n) : n \in 3 .. MaxFaceLen}

StartMeshes == {[gridId |-> "S", numVertices |-> 0, faces |-> <<>>], Open3, Kite, Cube}

OnePuzzle(gid, clues, solution) ==
    [gridId |-> gid, puzzles |-> << [clues |-> clues, solution |-> solution] >>]

\* The puzzle files offered for a mesh: every clue list for Open3, the sparse
\* clue lists for Cube, every solution list for Kite, and for "S" the loop
\* around its first face.
PuzzleFiles(meshGridId, g) ==
    IF meshGridId = "O"
    THEN {OnePuzzle("O", c, <<0, 1, 2>>) : c \in SeqsUpTo(-1 .. MaxClue, 4)}
    ELSE IF meshGridId = "C"
    THEN {OnePuzzle("C", c, <<0, 2, 3, 1>>) : c \in SeqsUpTo(-1 .. MaxClue, 2)}
    ELSE IF meshGridId = "K"
    THEN {OnePuzzle("K", <<>>, sol) : sol \in SeqsUpTo(0 .. MaxVertices, MaxSolutionLen)}
    ELSE {OnePuzzle("S", <<>>, IF 0 \in DOMAIN g.faces THEN g.faces[0].vertexIDs ELSE <<0, 1, 2>>)}

NoOp == [name |-> "init"]

\* makeInteraction has just run: nothing dragged, no face highlighted.
NoInteraction ==
    /\ didDrag = FALSE
    /\ highlightedFace = Null
    /\ isHighlighted = {}

\* The promises of createGameState are not followed.
NoLoad ==
    /\ meshLoad = "none"
    /\ puzzleLoad = "none"

SetGrid(g) ==
    /\ vertices' = g.vertices
    /\ edges' = g.edges
    /\ faces' = g.faces
    /\ vertexPairToEdge' = g.vertexPairToEdge
    /\ nextId' = g.nextId

InitWith(g) ==
    /\ vertices = g.vertices
    /\ edges = g.edges
    /\ faces = g.faces
    /\ vertexPairToEdge = g.vertexPairToEdge
    /\ nextId = g.nextId
    /\ puzzleData = NoData
    /\ currentPuzzleIndex = 0
    /\ gridId = NoGridId
    /\ edgeColor = EmptyMap
    /\ lastOp = NoOp
    /\ thrown = NoError
    /\ status = 0
    /\ failure = {}
    /\ clicks = 0
    /\ NoInteraction
    /\ NoLoad

InitGrid ==
    \E mesh \in StartMeshes :
        /\ polyhedronGridId = mesh.gridId
        /\ \E built \in {addFacesFrom(addVerticesFrom(EmptyGrid, 0, mesh.numVertices),
                                      mesh.faces, 1)} : InitWith(built.g)

Building == lastOp.name \in {"init", "addVertex", "addFace"} /\ thrown = NoError

AddVertex(id) ==
    /\ Building
    /\ id = Cardinality(DOMAIN vertices)
    /\ SetGrid(addVertex(TheGrid, id))
    /\ lastOp' = [name |-> "addVertex"]
    /\ UNCHANGED <<uiVars, loadVars, puzzleVars, polyhedronGridId, edgeColor, checkVars, thrown>>

AddFace(vertexIDs, id) ==
    /\ Building
    /\ id = Cardinality(DOMAIN faces)
    /\ \E r \in {addFace(TheGrid, vertexIDs, [index |-> id, clue |-> NoClue], id)} :
           /\ SetGrid(r.g)
           /\ thrown' = r.thrown
    /\ lastOp' = [name |-> "addFace"]
    /\ UNCHANGED <<uiVars, loadVars, puzzleVars, polyhedronGridId, edgeColor, checkVars>>

ShortFaceLists == SeqsUpTo(VertexIds, 2)

\* The same step of createPolyhedron for a face of fewer than 3 vertices: the
\* faces.forEach callback with face number id.
AddShortFace(vertexIDs, id) ==
    /\ Building
    /\ id = Cardinality(DOMAIN faces)
    /\ \E r \in {addFacesFrom(TheGrid, [k \in 1 .. id + 1 |-> vertexIDs], id + 1)} :
           /\ SetGrid(r.g)
           /\ thrown' = r.thrown
    /\ lastOp' = [name |-> "faceTooShort", numVertices |-> Len(vertexIDs)]
    /\ UNCHANGED <<uiVars, loadVars, puzzleVars, polyhedronGridId, edgeColor, checkVars>>

\* createGameState once the grid is built: createPolyhedron resets the guesses,
\* setupScene binds the puzzle file, setupEdges creates the edge meshes.  An
\* error ends the start-up.
SetupScene(data) ==
    /\ Building
    /\ \E r \in {setupScene(resetGuesses(TheGrid), polyhedronGridId, data, 0)} :
           /\ SetGrid(r.g)
           /\ puzzleData' = r.puzzleData
           /\ currentPuzzleIndex' = r.currentPuzzleIndex
           /\ gridId' = r.gridId
           /\ thrown' = r.thrown
           /\ edgeColor' = IF r.thrown = NoError THEN createEdgeGeometry(r.g) ELSE EmptyMap
           /\ lastOp' = [name |-> "setupScene", reached |-> r.reached]
    /\ UNCHANGED <<uiVars, loadVars, polyhedronGridId, checkVars>>

Started == ~Building /\ thrown = NoError

\* handleFaceClick asks for the faces adjacent to the clicked face.
QueryAdjacentFaces(faceId) ==
    /\ Started
    /\ lastOp' = [name |-> "getAdjacentFaces", faceId |-> faceId,
                  result |-> getAdjacentFaces(TheGrid, faceId)]
    /\ UNCHANGED <<uiVars, loadVars, gridVars, puzzleVars, polyhedronGridId, edgeColor, checkVars, thrown>>

NextGrid ==
    \/ \E id \in VertexIds : AddVertex(id)
    \/ \E vertexIDs \in FaceLists, id \in FaceIds : AddFace(vertexIDs, id)
    \/ \E vertexIDs \in ShortFaceLists, id \in FaceIds : AddShortFace(vertexIDs, id)
    \/ \E data \in PuzzleFiles(polyhedronGridId, TheGrid) : SetupScene(data)
    \/ \E faceId \in 0 .. MaxFaces : QueryAdjacentFaces(faceId)

SpecGrid == InitGrid /\ [][NextGrid]_vars


(***************************************************************************)
(* PuzzleGrid.checkUserSolution.  status is the local variable of that     *)
(* name (0 = unknown, 1 = failed, 2 = solved); the function returns        *)
(* nothing, so the verdict is the status it ends with and the failures it  *)
(* logs.  edgeMesh and edge are edge IDs, or Null.                         *)
(***************************************************************************)
ErrorColor == "error"                           \* EDGE_COLORS.error
GuessAsColor == <<"0", "1", "2">>               \* a userGuess number stored as a colour

SelfIntersection == "loop intersects itself"
ClueNotMatched == "edges filled in but should have"
ClueExceeded == "edges filled in but should only have"
ClueUnreachable == "edges ruled out"
NoEdgesFilled == "no edges are filled in"
IncompleteLoop == "Incomplete loop"
MultipleLoops == "More than a single loop"
TraceRunsOn == "trace does not return"

\* countGuesses over an array of edge IDs: an entry is counted each time it occurs.
countGuesses(g, edgeIDs) ==
    [numEdgesFilled |->
        Cardinality({i \in DOMAIN edgeIDs : edgeIDs[i] \in DOMAIN g.edges
                                            /\ g.edges[edgeIDs[i]].userGuess = FilledIn}),
     numEdgesRuledOut |->
        Cardinality({i \in DOMAIN edgeIDs : edgeIDs[i] \in DOMAIN g.edges
                                            /\ g.edges[edgeIDs[i]].userGuess = RuledOut})]

\* clearEdgeHighlights: every mesh's colour becomes the edge's userGuess.
clearEdgeHighlights(g, colors) ==
    [eId \in DOMAIN colors |-> At0(GuessAsColor, g.edges[eId].userGuess)]

\* highlightEdgeError: clears first unless already cleared, then writes to
\* edgeMesh.material, which raises when edgeMesh is null.
highlightEdgeError(g, colors, edgeMesh, clearedEdgeHighlights) ==
    LET cleared == IF clearedEdgeHighlights THEN colors ELSE clearEdgeHighlights(g, colors)
    IN  IF edgeMesh = Null
        THEN [edgeColor |-> cleared, thrown |-> TypeError]
        ELSE [edgeColor |-> [cleared EXCEPT ![edgeMesh] = ErrorColor], thrown |-> NoError]

\* Mutant: three filled edges at a vertex are let through.
tooManyFilledAbove3(numEdgesFilled) == numEdgesFilled > 3

tooManyFilled(numEdgesFilled) == numEdgesFilled > 2

\* The loop over vIDsToCheck.  st is [status, failure, cleared, edgeColor, thrown].
RECURSIVE checkVertices(_, _, _, _)
checkVertices(g, edgeMesh, vIDsToCheck, st) ==
    IF vIDsToCheck = <<>> THEN st
    ELSE LET vId == Head(vIDsToCheck)
         IN  IF vId \notin DOMAIN g.vertices THEN [st EXCEPT !.thrown = TypeError]
             ELSE IF tooManyFilled(countGuesses(g, SetToSeq(g.vertices[vId].edgeIDs)).numEdgesFilled)
             THEN LET h == highlightEdgeError(g, st.edgeColor, edgeMesh, st.cleared)
                      st1 == [st EXCEPT !.status = 1,
                                        !.failure = @ \cup {SelfIntersection},
                                        !.edgeColor = h.edgeColor,
                                        !.thrown = h.thrown]
                  IN  IF h.thrown # NoError THEN st1
                      ELSE checkVertices(g, edgeMesh, Tail(vIDsToCheck),
                                         [st1 EXCEPT !.cleared = TRUE])
             ELSE checkVertices(g, edgeMesh, Tail(vIDsToCheck), st)

\* Mutant: ruled-out edges are not held against the clue.
clueFailureFilledOnly(isActiveMode, clue, numEdges, counts) ==
    IF isActiveMode /\ counts.numEdgesFilled # clue THEN ClueNotMatched
    ELSE IF counts.numEdgesFilled > clue THEN ClueExceeded
    ELSE NoError

\* Mutant: the active check holds a clue to the passive bounds only.
clueFailurePassiveOnly(isActiveMode, clue, numEdges, counts) ==
    IF counts.numEdgesFilled > clue THEN ClueExceeded
    ELSE IF numEdges - counts.numEdgesRuledOut < clue THEN ClueUnreachable
    ELSE NoError

\* The if / else-if chain on one face that has a clue.
clueFailure(isActiveMode, clue, numEdges, counts) ==
    IF isActiveMode /\ counts.numEdgesFilled # clue THEN ClueNotMatched
    ELSE IF counts.numEdgesFilled > clue THEN ClueExceeded
    ELSE IF numEdges - counts.numEdgesRuledOut < clue THEN ClueUnreachable
    ELSE NoError

\* The loop over faceIDsToCheck.
RECURSIVE checkFaces(_, _, _, _)
checkFaces(g, isActiveMode, faceIDsToCheck, st) ==
    IF faceIDsToCheck = <<>> THEN st
    ELSE LET faceId == Head(faceIDsToCheck)
         IN  IF faceId \notin DOMAIN g.faces THEN [st EXCEPT !.thrown = TypeError]
             ELSE LET face == g.faces[faceId]
                      why == clueFailure(isActiveMode, face.clue, Len(face.vertexIDs),
                                         countGuesses(g, face.edgeIDs))
                  IN  IF face.clue = NoClue \/ why = NoError
                      THEN checkFaces(g, isActiveMode, Tail(faceIDsToCheck), st)
                      ELSE checkFaces(g, isActiveMode, Tail(faceIDsToCheck),
                                      [st EXCEPT !.status = 1, !.failure = @ \cup {why}])

FilledEdgeIds(g) == {eId \in DOMAIN g.edges : g.edges[eId].userGuess = FilledIn}

\* The first entry of a Map or Set whose entries were inserted in ascending order.
FirstOf(S) == CHOOSE x \in S : \A y \in S : x <= y

\* Mutant: the edge just traversed may be taken again.
nextFilledEdgesAny(g, currentVertexId, currentEdgeId) ==
    {eId \in g.vertices[currentVertexId].edgeIDs : g.edges[eId].userGuess = FilledIn}

\* The filled edges of currentVertex besides currentEdge.
nextFilledEdges(g, currentVertexId, currentEdgeId) ==
    {eId \in g.vertices[currentVertexId].edgeIDs :
        eId # currentEdgeId /\ g.edges[eId].userGuess = FilledIn}

\* The do-while loop tracing the route.  The result is [outcome, loopLength]
\* with outcome "closed", IncompleteLoop, or TraceRunsOn once the loop has run
\* more often than a route through the grid can be long.
RECURSIVE traceLoop(_, _, _, _, _, _)
traceLoop(g, startVertexId, currentVertexId, currentEdgeId, loopLength, fuel) ==
    LET candidates == nextFilledEdges(g, currentVertexId, currentEdgeId)
        nextEdgeId == FirstOf(candidates)
        nextEdge == g.edges[nextEdgeId]
        nextVertexId == IF nextEdge.vertexIDs[1] = currentVertexId
                        THEN nextEdge.vertexIDs[2] ELSE nextEdge.vertexIDs[1]
    IN  IF candidates = {} THEN [outcome |-> IncompleteLoop, loopLength |-> loopLength]
        ELSE IF nextVertexId = startVertexId
        THEN [outcome |-> "closed", loopLength |-> loopLength + 1]
        ELSE IF fuel = 0 THEN [outcome |-> TraceRunsOn, loopLength |-> loopLength + 1]
        ELSE traceLoop(g, startVertexId, nextVertexId, nextEdgeId, loopLength + 1, fuel - 1)

\* Mutant: the count of filled edges is not compared with the loop length.
moreThanOneLoopNever(numEdgesFilledTotal, loopLength) == FALSE

moreThanOneLoop(numEdgesFilledTotal, loopLength) == numEdgesFilledTotal > loopLength

\* checkUserSolution(isActiveMode, edgeMesh, edge) on grid g with puzzle data
\* and mesh colours.  The result is [status, failure, cleared, edgeColor, thrown].
checkUserSolution(g, data, colors, isActiveMode, edgeMesh, edge) ==
    LET st0 == [status |-> 0, failure |-> {}, cleared |-> FALSE,
                edgeColor |-> colors, thrown |-> NoError]
        local == edge # Null /\ ~isActiveMode
        vIDsToCheck == IF local
                       THEN (IF g.edges[edge].userGuess = FilledIn
                             THEN g.edges[edge].vertexIDs ELSE <<>>)
                       ELSE SetToSeq(DOMAIN g.vertices)
        st1 == checkVertices(g, edgeMesh, vIDsToCheck, st0)
        faceIDsToCheck == IF local THEN SetToSeq(g.edges[edge].faceIDs)
                          ELSE SetToSeq(DOMAIN g.faces)
        st2 == checkFaces(g, isActiveMode, faceIDsToCheck, st1)
        filled == FilledEdgeIds(g)
        startEdgeId == FirstOf(filled)
        startEdge == g.edges[startEdgeId]
        trace == traceLoop(g, startEdge.vertexIDs[1], startEdge.vertexIDs[2], startEdgeId,
                           1, 2 * Cardinality(DOMAIN g.edges) + 2)
        Failed(why) == [st2 EXCEPT !.status = 1, !.failure = @ \cup {why}]
    IN  IF data = NoData THEN [st0 EXCEPT !.thrown = "Error: No puzzle data available"]
        ELSE IF st1.thrown # NoError THEN st1
        ELSE IF st2.thrown # NoError THEN st2
        ELSE IF ~isActiveMode \/ st2.status = 1 THEN st2
        ELSE IF filled = {} THEN Failed(NoEdgesFilled)
        ELSE IF trace.outcome = TraceRunsOn THEN [st2 EXCEPT !.failure = @ \cup {TraceRunsOn}]
        ELSE IF trace.outcome # "closed" THEN Failed(trace.outcome)
        ELSE IF moreThanOneLoop(Cardinality(filled), trace.loopLength) THEN Failed(MultipleLoops)
        ELSE [st2 EXCEPT !.status = 2]

\* Mutant: a shift-click cycles forward too.
cycleEdgeStateForwardOnly(userGuess, reverse) == (userGuess + 1) % NumEdgeStates

\* cycleEdgeState: the next (or, in reverse, the previous) of the three states.
cycleEdgeState(userGuess, reverse) ==
    IF reverse THEN (userGuess - 1 + NumEdgeStates) % NumEdgeStates
    ELSE (userGuess + 1) % NumEdgeStates

(***************************************************************************)
(* Play.  A position is a started game (createPolyhedron and setupScene    *)
(* succeeded) in which the player has clicked every edge to filled-in or   *)
(* ruled-out; from it the model follows edge clicks and one press of the   *)
(* check-solution button.                                                  *)
(***************************************************************************)
\* A triangular prism: the two triangles are disjoint loops.
Prism ==
    [gridId |-> "P", numVertices |-> 6,
     faces |-> << <<0, 1, 2>>, <<3, 5, 4>>, <<0, 3, 4, 1>>, <<1, 4, 5, 2>>, <<2, 5, 3, 0>> >>]

MaxFilled == 6          \* most filled-in edges of a drawn position
MaxClicks == 1          \* edge clicks followed from a drawn position

CheckMeshes == {Tetrahedron, Prism, Cube}

\* Puzzle files: for the tetrahedron a clue on the first face or the example of
\* docs/json-format.md; for the prism no clue or the two triangles; for the cube
\* the clues of the loop around face 0, or the opposite face alone.
CheckPuzzles(mesh) ==
    IF mesh.gridId = "T"
    THEN {OnePuzzle("T", c, <<1, 2, 3>>) : c \in SeqsUpTo(-1 .. MaxClue, 1) \cup {<<3, 1, -1, -1>>}}
    ELSE IF mesh.gridId = "P"
    THEN {OnePuzzle("P", c, <<0, 1, 2>>) : c \in {<<>>, <<3, 3>>}}
    ELSE {OnePuzzle("C", c, <<0, 2, 3, 1>>) : c \in {<<4, 1, 1, 1, 1, 0>>, <<-1, -1, -1, -1, -1, 0>>}}

\* The grid after clicks that left the edges of filledIn filled-in, the rest ruled-out.
withGuesses(g, filledIn) ==
    [g EXCEPT !.edges = [eId \in DOMAIN g.edges |->
        [g.edges[eId] EXCEPT !.userGuess = IF eId \in filledIn THEN FilledIn ELSE RuledOut]]]

InitCheck ==
    \E mesh \in CheckMeshes : \E data \in CheckPuzzles(mesh) :
      \E built \in {createPolyhedron(mesh)} :
        \E r \in {setupScene(built.g, mesh.gridId, data, 0)} :
            /\ built.thrown = NoError
            /\ r.thrown = NoError
            /\ \E filledIn \in SUBSET DOMAIN r.g.edges :
                  /\ Cardinality(filledIn) <= MaxFilled
                  /\ \E g \in {withGuesses(r.g, filledIn)} :
                         /\ vertices = g.vertices
                         /\ edges = g.edges
                         /\ faces = g.faces
                         /\ vertexPairToEdge = g.vertexPairToEdge
                         /\ nextId = g.nextId
                         /\ edgeColor = createEdgeGeometry(g)
            /\ puzzleData = r.puzzleData
            /\ currentPuzzleIndex = r.currentPuzzleIndex
            /\ gridId = r.gridId
            /\ polyhedronGridId = mesh.gridId
            /\ lastOp = NoOp
            /\ thrown = NoError
            /\ status = 0
            /\ failure = {}
            /\ clicks = 0
            /\ NoInteraction
            /\ NoLoad

Playing == lastOp.name # "checkUserSolution"

\* onMouseClick on an edge mesh: handleEdgeClick -> cycleEdgeState.  showEdgeInfo
\* writes the info panel, which is no part of the state.
HandleEdgeClick(edgeId, shiftKey) ==
    /\ Playing
    /\ clicks < MaxClicks
    /\ edgeId \in DOMAIN edgeColor
    /\ LET userGuess == cycleEdgeState(edges[edgeId].userGuess, shiftKey)
       IN  /\ edges' = [edges EXCEPT ![edgeId].userGuess = userGuess]
           /\ edgeColor' = [edgeColor EXCEPT ![edgeId] = At0(StateColor, userGuess)]
    /\ clicks' = clicks + 1
    /\ lastOp' = [name |-> "handleEdgeClick", edgeId |-> edgeId, shiftKey |-> shiftKey]
    /\ UNCHANGED <<uiVars, loadVars, vertices, faces, vertexPairToEdge, nextId, puzzleVars, polyhedronGridId,
                   thrown, status, failure>>

\* The click handler of the checkSolution button: checkUserSolution(true).
CheckSolutionButton ==
    /\ Playing
    /\ \E r \in {checkUserSolution(TheGrid, puzzleData, edgeColor, TRUE, Null, Null)} :
           /\ status' = r.status
           /\ failure' = r.failure
           /\ edgeColor' = r.edgeColor
           /\ thrown' = r.thrown
    /\ lastOp' = [name |-> "checkUserSolution", before |-> lastOp]
    /\ UNCHANGED <<uiVars, loadVars, gridVars, puzzleVars, polyhedronGridId, clicks>>

NextCheck ==
    \/ \E edgeId \in DOMAIN edges, shiftKey \in BOOLEAN : HandleEdgeClick(edgeId, shiftKey)
    \/ CheckSolutionButton

SpecCheck == InitCheck /\ [][NextCheck]_vars

(***************************************************************************)
(* The puzzle overlay on its own: a new PuzzleGrid on which setPuzzleData  *)
(* and setCurrentPuzzle are called in any order with any arguments.  An    *)
(* exception is the caller's to handle; the object stays in use.           *)
(***************************************************************************)
MaxPuzzles == 2         \* most puzzles in a puzzle file

GridIds == {"T", "C"}

SomePuzzle == [clues |-> <<>>, solution |-> <<0, 1, 2>>]

PuzzleDataFiles ==
    {[gridId |-> gid, puzzles |-> [i \in 1 .. n |-> SomePuzzle]] :
        gid \in GridIds, n \in 0 .. MaxPuzzles}

InitPuzzle ==
    /\ polyhedronGridId = NoGridId
    /\ InitWith(EmptyGrid)

SetPuzzleData(newData, expectedGridId) ==
    /\ \E r \in {setPuzzleData(gridId, newData, expectedGridId)} :
           /\ puzzleData' = r.puzzleData
           /\ gridId' = r.gridId
           /\ thrown' = r.thrown
    /\ lastOp' = [name |-> "setPuzzleData", puzzleData |-> newData,
                  expectedGridId |-> expectedGridId,
                  before |-> [puzzleData |-> puzzleData, gridId |-> gridId]]
    /\ UNCHANGED <<uiVars, loadVars, gridVars, currentPuzzleIndex, polyhedronGridId, edgeColor, checkVars>>

SetCurrentPuzzle(puzzleIndex) ==
    /\ \E r \in {setCurrentPuzzle(puzzleData, currentPuzzleIndex, puzzleIndex)} :
           /\ currentPuzzleIndex' = r.currentPuzzleIndex
           /\ thrown' = r.thrown
    /\ lastOp' = [name |-> "setCurrentPuzzle", puzzleIndex |-> puzzleIndex,
                  before |-> currentPuzzleIndex]
    /\ UNCHANGED <<uiVars, loadVars, gridVars, puzzleData, gridId, polyhedronGridId, edgeColor, checkVars>>

NextPuzzle ==
    \/ \E newData \in PuzzleDataFiles, expectedGridId \in GridIds \cup {NoGridId} :
           SetPuzzleData(newData, expectedGridId)
    \/ \E puzzleIndex \in -1 .. MaxPuzzles : SetCurrentPuzzle(puzzleIndex)

SpecPuzzle == InitPuzzle /\ [][NextPuzzle]_vars

(***************************************************************************)
(* A game from its start.  createPolyhedron and setupScene have succeeded  *)
(* and createEdgeGeometry has drawn every edge; the player then clicks     *)
(* edges, each click handled by handleEdgeClick, and checkUserSolution is  *)
(* called in the three ways it can be: by the check-solution button        *)
(* (active, no edge), passively with no edge, and passively for one edge   *)
(* with that edge's mesh.  An exception ends the event handler it was      *)
(* raised in; the page goes on handling events.                            *)
(***************************************************************************)
\* A square pyramid: vertex 0 is the apex, on four edges.
Pyramid ==
    [gridId |-> "Y", numVertices |-> 5,
     faces |-> << <<0, 1, 2>>, <<0, 2, 3>>, <<0, 3, 4>>, <<0, 4, 1>>, <<4, 3, 2, 1>> >>]

MaxPlayClicks == 4      \* edge clicks followed from the start of a game

PlayMeshes == {Pyramid}

\* Puzzle files for the pyramid: a clue on the first face or clues on the
\* first two faces, every other face without one; the solution is the loop
\* around the first face.
PlayPuzzles(mesh) ==
    {OnePuzzle(mesh.gridId, c, <<0, 1, 2>>) : c \in {<<0>>, <<3>>, <<1, 2>>}}

InitPlay ==
    \E mesh \in PlayMeshes : \E data \in PlayPuzzles(mesh) :
      \E built \in {createPolyhedron(mesh)} :
        \E r \in {setupScene(built.g, mesh.gridId, data, 0)} :
            /\ built.thrown = NoError
            /\ r.thrown = NoError
            /\ vertices = r.g.vertices
            /\ edges = r.g.edges
            /\ faces = r.g.faces
            /\ vertexPairToEdge = r.g.vertexPairToEdge
            /\ nextId = r.g.nextId
            /\ edgeColor = createEdgeGeometry(r.g)
            /\ puzzleData = r.puzzleData
            /\ currentPuzzleIndex = r.currentPuzzleIndex
            /\ gridId = r.gridId
            /\ polyhedronGridId = mesh.gridId
            /\ lastOp = NoOp
            /\ thrown = NoError
            /\ status = 0
            /\ failure = {}
            /\ clicks = 0
            /\ NoInteraction
            /\ NoLoad

\* onMouseClick on an edge mesh: handleEdgeClick calls cycleEdgeState, then
\* showEdgeInfo (the info panel, no part of the state), then sets selectedEdge.
\* lastOp keeps the edge's state before the click.
EdgeClick(edgeId, shiftKey) ==
    /\ clicks < MaxPlayClicks
    /\ edgeId \in DOMAIN edgeColor
    /\ LET userGuess == cycleEdgeState(edges[edgeId].userGuess, shiftKey)
       IN  /\ edges' = [edges EXCEPT ![edgeId].userGuess = userGuess]
           /\ edgeColor' = [edgeColor EXCEPT ![edgeId] = At0(StateColor, userGuess)]
    /\ clicks' = clicks + 1
    /\ lastOp' = [name |-> "handleEdgeClick", edgeId |-> edgeId, shiftKey |-> shiftKey,
                  was |-> edges[edgeId].userGuess]
    /\ thrown' = NoError
    /\ UNCHANGED <<uiVars, loadVars, vertices, faces, vertexPairToEdge, nextId, puzzleVars, polyhedronGridId,
                   status, failure>>

\* A call checkUserSolution(isActiveMode, edgeMesh, edge); edgeId is the edge
\* whose mesh and record are passed, or Null for a call without them.
CheckUserSolution(isActiveMode, edgeId) ==
    /\ \E r \in {checkUserSolution(TheGrid, puzzleData, edgeColor, isActiveMode, edgeId, edgeId)} :
           /\ status' = r.status
           /\ failure' = r.failure
           /\ edgeColor' = r.edgeColor
           /\ thrown' = r.thrown
    /\ lastOp' = [name |-> "checkUserSolution", isActiveMode |-> isActiveMode, edgeId |-> edgeId]
    /\ UNCHANGED <<uiVars, loadVars, gridVars, puzzleVars, polyhedronGridId, clicks>>

NextPlay ==
    \/ \E edgeId \in DOMAIN edges, shiftKey \in BOOLEAN : EdgeClick(edgeId, shiftKey)
    \/ \E edgeId \in DOMAIN edges : CheckUserSolution(FALSE, edgeId)
    \/ \E isActiveMode \in BOOLEAN : CheckUserSolution(isActiveMode, Null)

SpecPlay == InitPlay /\ [][NextPlay]_vars

(***************************************************************************)
(* Highlighting.  On a started game the player clicks edges, presses the   *)
(* check-solution button and switches the show-solution checkbox, whose    *)
(* listener calls GameState.toggleShowSolution.                            *)
(***************************************************************************)
SolutionColor == "undefined"                    \* EDGE_COLORS.solution: no such key

\* highlightPuzzleSolution's loop from position i of the solution on: the mesh
\* of each edge found gets the solution colour; getEdgeMesh gives null for an
\* edge that is not found.
RECURSIVE highlightSolutionFrom(_, _, _, _)
highlightSolutionFrom(g, solution, colors, i) ==
    IF i > Len(solution) THEN colors
    ELSE LET edgeId == findEdgeByVertices(g, solution[i], solution[(i % Len(solution)) + 1])
         IN  highlightSolutionFrom(g, solution,
                 IF edgeId \in DOMAIN colors
                 THEN [colors EXCEPT ![edgeId] = SolutionColor] ELSE colors,
                 i + 1)

\* highlightPuzzleSolution.  The result is [edgeColor, thrown].
highlightPuzzleSolution(g, data, index, colors) ==
    IF data = NoData THEN [edgeColor |-> colors, thrown |-> "Error: No puzzle data available"]
    ELSE IF ~HasCurrentPuzzle(data, index) THEN [edgeColor |-> colors, thrown |-> TypeError]
    ELSE [edgeColor |-> highlightSolutionFrom(g, getCurrentPuzzle(data, index).solution, colors, 1),
          thrown |-> NoError]

MaxShowClicks == 3      \* edge clicks followed while highlighting is switched

ShowPuzzles == {OnePuzzle("T", c, <<1, 2, 3>>) : c \in {<<>>, <<3, 1, -1, -1>>}}

InitShow ==
    \E data \in ShowPuzzles :
      \E built \in {createPolyhedron(Tetrahedron)} :
        \E r \in {setupScene(built.g, Tetrahedron.gridId, data, 0)} :
            /\ built.thrown = NoError
            /\ r.thrown = NoError
            /\ vertices = r.g.vertices
            /\ edges = r.g.edges
            /\ faces = r.g.faces
            /\ vertexPairToEdge = r.g.vertexPairToEdge
            /\ nextId = r.g.nextId
            /\ edgeColor = createEdgeGeometry(r.g)
            /\ puzzleData = r.puzzleData
            /\ currentPuzzleIndex = r.currentPuzzleIndex
            /\ gridId = r.gridId
            /\ polyhedronGridId = Tetrahedron.gridId
            /\ lastOp = NoOp
            /\ thrown = NoError
            /\ status = 0
            /\ failure = {}
            /\ clicks = 0
            /\ NoInteraction
            /\ NoLoad

\* Mutant: switching the solution off resets the guesses, as the earlier
\* toggleDebugMode did.
ToggleShowSolutionResets(enable) ==
    /\ IF enable
       THEN /\ \E r \in {highlightPuzzleSolution(TheGrid, puzzleData, currentPuzzleIndex, edgeColor)} :
                   /\ edgeColor' = r.edgeColor
                   /\ thrown' = r.thrown
            /\ UNCHANGED edges
       ELSE /\ edges' = resetGuesses(TheGrid).edges
            /\ edgeColor' = edgeColor
            /\ thrown' = NoError
    /\ lastOp' = [name |-> "toggleShowSolution", enable |-> enable]
    /\ UNCHANGED <<uiVars, loadVars, vertices, faces, vertexPairToEdge, nextId, puzzleVars,
                   polyhedronGridId, checkVars>>

\* The change listener of the showSolution checkbox: toggleShowSolution(enable).
ToggleShowSolution(enable) ==
    /\ IF enable
       THEN \E r \in {highlightPuzzleSolution(TheGrid, puzzleData, currentPuzzleIndex, edgeColor)} :
                /\ edgeColor' = r.edgeColor
                /\ thrown' = r.thrown
       ELSE /\ edgeColor' = clearEdgeHighlights(TheGrid, edgeColor)
            /\ thrown' = NoError
    /\ lastOp' = [name |-> "toggleShowSolution", enable |-> enable]
    /\ UNCHANGED <<uiVars, loadVars, gridVars, puzzleVars, polyhedronGridId, checkVars>>

NextShow ==
    \/ /\ clicks < MaxShowClicks
       /\ \E edgeId \in DOMAIN edges, shiftKey \in BOOLEAN : EdgeClick(edgeId, shiftKey)
    \/ \E edgeId \in DOMAIN edges : CheckUserSolution(FALSE, edgeId)
    \/ \E isActiveMode \in BOOLEAN : CheckUserSolution(isActiveMode, Null)
    \/ \E enable \in BOOLEAN : ToggleShowSolution(enable)

SpecShow == InitShow /\ [][NextShow]_vars

(***************************************************************************)
(* The interaction handler (makeInteraction) on a started game: the click  *)
(* listener of the window and the 'start' and 'change' listeners of the    *)
(* camera controls.  A click hits an edge mesh, else a face, else nothing. *)
(***************************************************************************)
MaxMouseClicks == 2     \* edge clicks handled by the click listener

\* handleFaceClick.  The result is [highlightedFace, isHighlighted, thrown]: the
\* info panel is written last, and reads face.vertices.length of a Face that
\* has vertexIDs.
handleFaceClick(highlighted, isHigh, faceId) ==
    LET isHigh1 == IF highlighted # Null /\ highlighted # faceId
                   THEN isHigh \ {highlighted} ELSE isHigh
        newHighlight == faceId \notin isHigh1
    IN  [highlightedFace |-> IF newHighlight THEN faceId ELSE Null,
         isHighlighted |-> IF newHighlight THEN isHigh1 \cup {faceId} ELSE isHigh1 \ {faceId},
         thrown |-> IF newHighlight THEN TypeError ELSE NoError]

\* What the raycaster finds under the mouse: the first edge mesh, else the
\* face of the polyhedron mesh, else nothing.
HitTargets ==
    {[kind |-> "edge", id |-> e] : e \in DOMAIN edgeColor}
        \cup {[kind |-> "face", id |-> f] : f \in DOMAIN faces}
        \cup {[kind |-> "none", id |-> Null]}

\* Mutant: a suppressed click leaves didDrag set.
suppressClickKeepsDrag(drag) == drag

\* The branch "if (didDrag)" of onMouseClick: the value didDrag is left with.
suppressClick(drag) == FALSE

\* Mutant: the new userGuess is written to every edge.
setUserGuessOfAll(es, edgeId, userGuess) ==
    [e \in DOMAIN es |-> [es[e] EXCEPT !.userGuess = userGuess]]

\* cycleEdgeState's assignment to edge.metadata.userGuess of the clicked edge.
setUserGuess(es, edgeId, userGuess) == [es EXCEPT ![edgeId].userGuess = userGuess]

\* onMouseClick: the click listener.
OnMouseClick(hit, shiftKey) ==
    /\ IF didDrag
       THEN /\ didDrag' = suppressClick(didDrag)
            /\ UNCHANGED <<gridVars, edgeColor, clicks, thrown, highlightedFace, isHighlighted>>
       ELSE IF hit.kind = "edge"
       THEN /\ clicks < MaxMouseClicks
            /\ LET userGuess == cycleEdgeState(edges[hit.id].userGuess, shiftKey)
               IN  /\ edges' = setUserGuess(edges, hit.id, userGuess)
                   /\ edgeColor' = [edgeColor EXCEPT ![hit.id] = At0(StateColor, userGuess)]
            /\ clicks' = clicks + 1
            /\ thrown' = NoError
            /\ UNCHANGED <<vertices, faces, vertexPairToEdge, nextId, uiVars>>
       ELSE IF hit.kind = "face"
       THEN /\ \E r \in {handleFaceClick(highlightedFace, isHighlighted, hit.id)} :
                   /\ highlightedFace' = r.highlightedFace
                   /\ isHighlighted' = r.isHighlighted
                   /\ thrown' = r.thrown
            /\ UNCHANGED <<gridVars, edgeColor, clicks, didDrag>>
       ELSE /\ thrown' = NoError
            /\ UNCHANGED <<gridVars, edgeColor, clicks, uiVars>>
    /\ lastOp' = [name |-> "onMouseClick", hit |-> hit, shiftKey |-> shiftKey,
                  dropped |-> didDrag]
    /\ UNCHANGED <<loadVars, puzzleVars, polyhedronGridId, status, failure>>

\* onControlsStart: the controls' 'start' event.
OnControlsStart ==
    /\ didDrag' = FALSE
    /\ lastOp' = [name |-> "onControlsStart"]
    /\ UNCHANGED <<gridVars, puzzleVars, polyhedronGridId, edgeColor, checkVars, thrown,
                   highlightedFace, isHighlighted, loadVars>>

\* onControlsChange: the controls' 'change' event.
OnControlsChange ==
    /\ didDrag' = TRUE
    /\ lastOp' = [name |-> "onControlsChange"]
    /\ UNCHANGED <<gridVars, puzzleVars, polyhedronGridId, edgeColor, checkVars, thrown,
                   highlightedFace, isHighlighted, loadVars>>

NextClick ==
    \/ \E hit \in HitTargets, shiftKey \in BOOLEAN : OnMouseClick(hit, shiftKey)
    \/ OnControlsStart
    \/ OnControlsChange

SpecClick == InitShow /\ [][NextClick]_vars

(***************************************************************************)
(* createGameState: a new GameState, then the mesh file and the puzzle     *)
(* file are fetched in parallel and awaited with Promise.all; setupScene   *)
(* is the continuation.  A promise is pending, holding the response that   *)
(* is on its way, or settled as [state, value]: fulfilled with the value   *)
(* the loader returns, or rejected; the value of a rejected promise is the *)
(* content of the file the loader refused.                                 *)
(***************************************************************************)
Pending(response) == [state |-> "pending", response |-> response]

\* The end of loadPolyhedronFromJSON: a throw of createPolyhedron rejects,
\* otherwise the polyhedron is returned with the mesh's gridId.
polyhedronData(polyhedron, mesh) ==
    IF polyhedron.thrown # NoError THEN [state |-> "rejected", value |-> mesh]
    ELSE [state |-> "fulfilled", value |-> [g |-> polyhedron.g, gridId |-> mesh.gridId]]

\* loadPolyhedronFromJSON on a response: ok is response.ok, mesh the parsed
\* JSON.  The mesh records carry no gridName; vertices are counted only.
loadPolyhedronFromJSON(file) ==
    IF ~file.ok THEN [state |-> "rejected", value |-> file.mesh]
    ELSE IF file.mesh.gridId = "" THEN [state |-> "rejected", value |-> file.mesh]
    ELSE IF file.mesh.numVertices < 4 THEN [state |-> "rejected", value |-> file.mesh]
    ELSE IF Len(file.mesh.faces) < 4 THEN [state |-> "rejected", value |-> file.mesh]
    ELSE CHOOSE data \in {polyhedronData(polyhedron, file.mesh) :
                               polyhedron \in {createPolyhedron(file.mesh)}} : TRUE

\* loadPuzzleData on a response: an empty puzzles array is logged, not refused.
loadPuzzleData(file) ==
    IF ~file.ok THEN [state |-> "rejected", value |-> file.data]
    ELSE IF file.data.gridId = "" THEN [state |-> "rejected", value |-> file.data]
    ELSE [state |-> "fulfilled", value |-> file.data]

\* Mutant: the continuation runs once the mesh is there and the puzzle load
\* has settled either way.
allFulfilledMeshOnly(mesh, puzzle) ==
    mesh.state = "fulfilled" /\ puzzle.state # "pending"

\* await Promise.all([...]): the continuation runs when both are fulfilled.
allFulfilled(mesh, puzzle) ==
    mesh.state = "fulfilled" /\ puzzle.state = "fulfilled"

\* The mesh files that may answer: the tetrahedron, the same without a gridId
\* or with a face of two vertices, and a mesh of two faces; found or not.
MeshResponses ==
    {[ok |-> ok, mesh |-> mesh] :
        ok \in BOOLEAN,
        mesh \in {Tetrahedron, Kite, [Tetrahedron EXCEPT !.gridId = ""],
                  [Tetrahedron EXCEPT !.faces[4] = <<0, 3>>]}}

\* The puzzle files that may answer.
PuzzleResponses ==
    {[ok |-> ok, data |-> [gridId |-> gid, puzzles |-> puzzles]] :
        ok \in BOOLEAN, gid \in {"T", "C", ""},
        puzzles \in {<<>>} \cup
            {<< [clues |-> c, solution |-> <<1, 2, 3>>] >> : c \in {<<>>, <<3, 1, -1, -1>>, <<1, 4>>}}}

\* createGameState has reached its await: both loads are under way, and the
\* server has chosen what it answers.
InitLoad ==
    /\ \E meshFile \in MeshResponses :
         \E mesh \in {loadPolyhedronFromJSON(meshFile)} :
           \E puzzleFile \in PuzzleResponses :
             /\ meshLoad = Pending(mesh)
             /\ puzzleLoad = Pending(loadPuzzleData(puzzleFile))
    /\ vertices = EmptyGrid.vertices
    /\ edges = EmptyGrid.edges
    /\ faces = EmptyGrid.faces
    /\ vertexPairToEdge = EmptyGrid.vertexPairToEdge
    /\ nextId = EmptyGrid.nextId
    /\ puzzleData = NoData
    /\ currentPuzzleIndex = 0
    /\ gridId = NoGridId
    /\ polyhedronGridId = NoGridId
    /\ edgeColor = EmptyMap
    /\ lastOp = NoOp
    /\ thrown = NoError
    /\ status = 0
    /\ failure = {}
    /\ clicks = 0
    /\ NoInteraction

\* The promise of loadPolyhedronFromJSON settles.
MeshLoadSettles ==
    /\ meshLoad.state = "pending"
    /\ meshLoad' = meshLoad.response
    /\ polyhedronGridId' = IF meshLoad'.state = "fulfilled" THEN meshLoad'.value.gridId
                                                             ELSE NoGridId
    /\ lastOp' = [name |-> "loadPolyhedronFromJSON"]
    /\ UNCHANGED <<gridVars, puzzleVars, edgeColor, checkVars, thrown, uiVars, puzzleLoad>>

\* The promise of loadPuzzleData settles.
PuzzleLoadSettles ==
    /\ puzzleLoad.state = "pending"
    /\ puzzleLoad' = puzzleLoad.response
    /\ lastOp' = [name |-> "loadPuzzleData"]
    /\ UNCHANGED <<gridVars, puzzleVars, polyhedronGridId, edgeColor, checkVars, thrown, uiVars,
                   meshLoad>>

\* The await throws: createGameState ends with the first rejection.
CreateGameStateRejects ==
    /\ thrown = NoError
    /\ lastOp.name # "setupScene"
    /\ meshLoad.state = "rejected" \/ puzzleLoad.state = "rejected"
    /\ thrown' = "Error: Failed to load"
    /\ lastOp' = [name |-> "createGameState"]
    /\ UNCHANGED <<gridVars, puzzleVars, polyhedronGridId, edgeColor, checkVars, uiVars, loadVars>>

\* The continuation of the await: gameState.setupScene(polyhedronData, puzzleData).
SetupSceneAfterLoads ==
    /\ allFulfilled(meshLoad, puzzleLoad)
    /\ thrown = NoError
    /\ lastOp.name # "setupScene"
    /\ \E r \in {setupScene(meshLoad.value.g, meshLoad.value.gridId, puzzleLoad.value, 0)} :
           /\ SetGrid(r.g)
           /\ puzzleData' = r.puzzleData
           /\ currentPuzzleIndex' = r.currentPuzzleIndex
           /\ gridId' = r.gridId
           /\ thrown' = r.thrown
           /\ edgeColor' = IF r.thrown = NoError THEN createEdgeGeometry(r.g) ELSE EmptyMap
           /\ lastOp' = [name |-> "setupScene", reached |-> r.reached]
    /\ UNCHANGED <<polyhedronGridId, checkVars, uiVars, loadVars>>

NextLoad ==
    \/ MeshLoadSettles
    \/ PuzzleLoadSettles
    \/ CreateGameStateRejects
    \/ SetupSceneAfterLoads

SpecLoad == InitLoad /\ [][NextLoad]_vars

(***************************************************************************)
(* Properties of the topology store                                        *)
(***************************************************************************)
EdgeCount(g) == Cardinality(DOMAIN g.edges)

Endpoints(g, edgeId) == Range(g.edges[edgeId].vertexIDs)

Registered == DOMAIN vertices

\* The element after position i of a cyclic list, the first one after the last.
SuccessorOf(list, i) == IF i = Len(list) THEN list[1] ELSE list[i + 1]

\* C3 as stated: for all registered vertex IDs a and b, addEdge(a, b) followed by
\* addEdge(a, b) or addEdge(b, a) returns the same edge ID both times, and the two
\* calls together add at most one edge to the store.
C3_AddEdgeTwiceSameId ==
    \A a, b \in Registered :
        LET first == addEdge(TheGrid, a, b, Undefined)
            same == addEdge(first.g, a, b, Undefined)
            swapped == addEdge(first.g, b, a, Undefined)
        IN  /\ same.id = first.id
            /\ swapped.id = first.id
            /\ EdgeCount(same.g) <= EdgeCount(TheGrid) + 1
            /\ EdgeCount(swapped.g) <= EdgeCount(TheGrid) + 1

\* C3 amended: for all registered vertex IDs a and b, resolving the edge the way
\* addFace does (findEdgeByVertices, then addEdge only when nothing was found) and
\* then resolving (a, b) or (b, a) again returns the same edge ID both times, and
\* the two resolutions together add at most one edge to the store.
C3_EnsureEdgeTwiceSameId ==
    \A a, b \in Registered :
        LET first == ensureEdge(TheGrid, a, b)
            same == ensureEdge(first.g, a, b)
            swapped == ensureEdge(first.g, b, a)
        IN  /\ first.thrown = NoError
            /\ same.id = first.id
            /\ swapped.id = first.id
            /\ EdgeCount(same.g) <= EdgeCount(TheGrid) + 1
            /\ EdgeCount(swapped.g) <= EdgeCount(TheGrid) + 1

\* C3 witness: a store with an edge between two registered vertices and two other
\* registered vertices that no edge joins yet, so both the lookup and the
\* creation branch are exercised.
C3_Witness ==
    /\ \E a, b \in Registered : a # b /\ findEdgeByVertices(TheGrid, a, b) # Null
    /\ \E a, b \in Registered : a # b /\ findEdgeByVertices(TheGrid, a, b) = Null

\* The linear scan over the edges that addFace used before the hash index.
linearScan(g, v1, v2) ==
    LET hits == {eId \in DOMAIN g.edges :
                    \/ g.edges[eId].vertexIDs = <<v1, v2>>
                    \/ g.edges[eId].vertexIDs = <<v2, v1>>}
    IN  IF hits = {} THEN Null ELSE CHOOSE eId \in hits : \A other \in hits : eId <= other

\* C4: no two edges have the same unordered endpoint pair, and findEdgeByVertices
\* is symmetric in its arguments and agrees with a linear scan over the edges
\* (the edge's ID when one joins a and b, not-found otherwise).
C4_EdgeIndexExact ==
    /\ \A e1, e2 \in DOMAIN edges :
          Endpoints(TheGrid, e1) = Endpoints(TheGrid, e2) => e1 = e2
    /\ \A a, b \in VertexIds :
          /\ findEdgeByVertices(TheGrid, a, b) = findEdgeByVertices(TheGrid, b, a)
          /\ findEdgeByVertices(TheGrid, a, b) = linearScan(TheGrid, a, b)

\* C4 witness: two faces run along the same edge in opposite winding order.
C4_Witness ==
    /\ thrown = NoError
    /\ \E f1, f2 \in DOMAIN faces :
          /\ f1 # f2
          /\ \E i \in DOMAIN faces[f1].vertexIDs, j \in DOMAIN faces[f2].vertexIDs :
                /\ faces[f1].vertexIDs[i] # SuccessorOf(faces[f1].vertexIDs, i)
                /\ faces[f1].vertexIDs[i] = SuccessorOf(faces[f2].vertexIDs, j)
                /\ faces[f2].vertexIDs[j] = SuccessorOf(faces[f1].vertexIDs, i)

\* C5: every face with vertex list v_0 .. v_(n-1) has an edge list of length n whose
\* i-th edge has the endpoints {v_i, v_((i+1) mod n)}, the wraparound included.
C5_FaceEdgeClosure ==
    \A f \in DOMAIN faces :
        /\ Len(faces[f].edgeIDs) = Len(faces[f].vertexIDs)
        /\ \A i \in DOMAIN faces[f].vertexIDs :
              /\ faces[f].edgeIDs[i] \in DOMAIN edges
              /\ Endpoints(TheGrid, faces[f].edgeIDs[i])
                    = {faces[f].vertexIDs[i], SuccessorOf(faces[f].vertexIDs, i)}

\* C5 witness: a face of three distinct vertices whose wraparound edge joins its
\* last and its first vertex.
C5_Witness ==
    \E f \in DOMAIN faces :
        LET n == Len(faces[f].vertexIDs)
        IN  /\ Cardinality(Range(faces[f].vertexIDs)) = n
            /\ Endpoints(TheGrid, faces[f].edgeIDs[n])
                  = {faces[f].vertexIDs[n], faces[f].vertexIDs[1]}

\* C6: face adjacency is symmetric: for all faces A and B of the store, B in
\* getAdjacentFaces(A) implies A in getAdjacentFaces(B).
C6_AdjacencySymmetric ==
    \A A, B \in DOMAIN faces :
        B \in getAdjacentFaces(TheGrid, A) => A \in getAdjacentFaces(TheGrid, B)

\* C6 witness: two faces of the store are adjacent.
C6_Witness ==
    \E A, B \in DOMAIN faces : B \in getAdjacentFaces(TheGrid, A)

\* C8: incidence is mutually consistent after any sequence of addVertex and
\* addFace calls: face f lists edge e iff e's face set contains f, face f lists
\* vertex v iff v's face set contains f, and edge e has endpoint v iff v's edge
\* set contains e.
C8_IncidenceConsistent ==
    /\ \A f \in FaceIds, e \in DOMAIN edges :
          (f \in DOMAIN faces /\ e \in Range(faces[f].edgeIDs)) <=> f \in edges[e].faceIDs
    /\ \A f \in FaceIds, v \in DOMAIN vertices :
          (f \in DOMAIN faces /\ v \in Range(faces[f].vertexIDs)) <=> f \in vertices[v].faceIDs
    /\ \A e \in DOMAIN edges, v \in DOMAIN vertices :
          v \in Endpoints(TheGrid, e) <=> e \in vertices[v].edgeIDs

\* The faces of the store that have an edge in common with face f.
FacesSharingAnEdge(f) ==
    IF f \notin DOMAIN faces THEN {}
    ELSE {h \in DOMAIN faces :
             h # f /\ Range(faces[h].edgeIDs) \cap Range(faces[f].edgeIDs) # {}}

\* C7: getAdjacentFaces(f) returns exactly the faces that share at least one edge
\* with f, never f itself, and the empty set when f is not a face of the store.
C7_AdjacentFacesExact ==
    lastOp.name = "getAdjacentFaces" =>
        /\ lastOp.result = FacesSharingAnEdge(lastOp.faceId)
        /\ lastOp.faceId \notin lastOp.result

\* C7 witness: a query on a face that has neighbours.
C7_Witness ==
    /\ lastOp.name = "getAdjacentFaces"
    /\ lastOp.faceId \in DOMAIN faces
    /\ lastOp.result # {}

(***************************************************************************)
(* Properties of the puzzle overlay                                        *)
(***************************************************************************)
CurrentClues == At0(puzzleData.puzzles, currentPuzzleIndex).clues
CurrentSolution == At0(puzzleData.puzzles, currentPuzzleIndex).solution

ReachedValidate ==
    lastOp.name = "setupScene" /\ lastOp.reached \in {"validatePuzzleSolution", "done"}

ReachedApply ==
    lastOp.name = "setupScene"
    /\ lastOp.reached \in {"applyCurrentPuzzleClues", "validatePuzzleSolution", "done"}

SolutionWellFormed(sol) ==
    /\ Len(sol) >= 3
    /\ Len(sol) <= Cardinality(DOMAIN vertices)
    /\ \A i, j \in DOMAIN sol : i # j => sol[i] # sol[j]
    /\ \A i \in DOMAIN sol : sol[i] \in DOMAIN vertices
    /\ \A i \in DOMAIN sol :
          \E e \in DOMAIN edges : Endpoints(TheGrid, e) = {sol[i], SuccessorOf(sol, i)}

\* C9: validatePuzzleSolution succeeds iff the solution has at least 3 and at most
\* as many entries as there are vertices, no duplicate, only registered vertex
\* IDs, and an edge for every consecutive pair and for (last, first); otherwise
\* it fails with an error.
C9_ValidateExact ==
    ReachedValidate =>
        /\ (lastOp.reached = "done") <=> SolutionWellFormed(CurrentSolution)
        /\ (lastOp.reached = "done") <=> (thrown = NoError)

\* C9 witness: a solution of distinct registered vertices and of a valid length
\* is rejected because one of its pairs has no edge.
C9_Witness ==
    /\ ReachedValidate
    /\ thrown # NoError
    /\ Len(CurrentSolution) >= 3
    /\ Len(CurrentSolution) <= Cardinality(DOMAIN vertices)
    /\ Cardinality(Range(CurrentSolution)) = Len(CurrentSolution)
    /\ Range(CurrentSolution) \subseteq DOMAIN vertices

ExpectedClue(f) ==
    IF faces[f].index < Len(CurrentClues) THEN At0(CurrentClues, faces[f].index) ELSE NoClue

CluesAcceptable ==
    /\ Len(CurrentClues) <= Cardinality(DOMAIN faces)
    /\ \A f \in DOMAIN faces :
          ExpectedClue(f) = NoClue
          \/ (ExpectedClue(f) >= 0 /\ ExpectedClue(f) <= Len(faces[f].edgeIDs))

\* C10: when applyCurrentPuzzleClues is given clues it accepts, it raises nothing
\* (a face beyond the end of the clues array is no error), afterwards every face
\* has the clue clues[index], or -1 when index >= clues.length, and applying the
\* same puzzle once more changes no clue.
C10_CluesApplied ==
    (ReachedApply /\ CluesAcceptable) =>
        /\ lastOp.reached # "applyCurrentPuzzleClues"
        /\ \A f \in DOMAIN faces : faces[f].clue = ExpectedClue(f)
        /\ applyCurrentPuzzleClues(faces, puzzleData, currentPuzzleIndex)
              = [faces |-> faces, thrown |-> NoError]

\* C10 witness: clues were applied from an array shorter than the face list that
\* holds a number, so one face has a numeric clue and another has none.
C10_Witness ==
    /\ ReachedApply
    /\ lastOp.reached # "applyCurrentPuzzleClues"
    /\ Len(CurrentClues) < Cardinality(DOMAIN faces)
    /\ \E f \in DOMAIN faces : faces[f].clue > 0
    /\ \E f \in DOMAIN faces : faces[f].index >= Len(CurrentClues) /\ faces[f].clue = NoClue

(***************************************************************************)
(* Properties of the solution checker                                      *)
(***************************************************************************)
Checked == lastOp.name = "checkUserSolution"

Filled == {e \in DOMAIN edges : edges[e].userGuess = FilledIn}

FilledAt(v) == {e \in Filled : v \in Endpoints(TheGrid, e)}

\* The filled edges joined to those of S by a chain of filled edges.
RECURSIVE JoinedTo(_)
JoinedTo(S) ==
    LET T == S \cup {e \in Filled :
                        \E f \in S : Endpoints(TheGrid, e) \cap Endpoints(TheGrid, f) # {}}
    IN  IF T = S THEN S ELSE JoinedTo(T)

OneSimpleCycle ==
    /\ Filled # {}
    /\ \A v \in DOMAIN vertices : Cardinality(FilledAt(v)) \in {0, 2}
    /\ JoinedTo({CHOOSE e \in Filled : TRUE}) = Filled

FilledOn(f) == Range(faces[f].edgeIDs) \cap Filled

CluesMet ==
    \A f \in DOMAIN faces :
        faces[f].clue # NoClue => Cardinality(FilledOn(f)) = faces[f].clue

\* C1: the active check ends with the verdict Solved (status 2) if and only if the
\* filled edges are non-empty and form exactly one simple cycle (every vertex has
\* 0 or 2 filled edges, and all filled edges hang together) and every face with
\* a clue has exactly clue-many filled edges.
C1_SolvedIffSingleLoop ==
    Checked => ((status = 2 /\ thrown = NoError) <=> (OneSimpleCycle /\ CluesMet))

\* The cube with the loop around face 0 filled in, or that loop less the edge gone.
CubeLoopLess(gone) ==
    /\ polyhedronGridId = "C"
    /\ Filled = Range(faces[0].edgeIDs) \ gone
    /\ \A e \in DOMAIN edges : e \notin Filled \cup gone => edges[e].userGuess = RuledOut

\* C1 witness: the cube with the four edges of face 0 filled in, the other eight
\* ruled out and the clues of that loop is found solved.
C1_Witness ==
    /\ Checked
    /\ CubeLoopLess({})
    /\ CurrentClues = <<4, 1, 1, 1, 1, 0>>
    /\ status = 2

\* The cube scenario after one of the four filled edges was changed to another state.
OneEdgeRemoved ==
    /\ Checked
    /\ \E e \in Range(faces[0].edgeIDs) :
          /\ edges[e].userGuess # FilledIn
          /\ CubeLoopLess({e})

\* C2 as claimed: in the cube scenario, after one of the four filled edges is
\* changed to a non-filled state, the active check is not Solved and the failure
\* reported is the incomplete loop.
C2_RemovedEdgeIncompleteLoop ==
    OneEdgeRemoved => (status # 2 /\ IncompleteLoop \in failure)

\* C2 amended: after the change the active check is not Solved; the failure is
\* the incomplete loop exactly when every clue is still matched by the filled
\* edges, and otherwise the check stops at the unmatched clue and traces no loop.
C2_RemovedEdgeNotSolved ==
    OneEdgeRemoved =>
        /\ status = 1
        /\ thrown = NoError
        /\ failure = IF CluesMet THEN {IncompleteLoop} ELSE {ClueNotMatched}

\* C2 witness: a filled edge of the loop was clicked, the faces at that edge have
\* no clue, and the check then reports the incomplete loop.
C2_Witness ==
    /\ OneEdgeRemoved
    /\ lastOp.before.name = "handleEdgeClick"
    /\ lastOp.before.edgeId \in Range(faces[0].edgeIDs)
    /\ edges[lastOp.before.edgeId].userGuess # FilledIn
    /\ faces[0].clue = NoClue
    /\ failure = {IncompleteLoop}

(***************************************************************************)
(* Error handling of the puzzle overlay and the topology store             *)
(***************************************************************************)
ClueInRange(f, clue) == clue = NoClue \/ (clue >= 0 /\ clue <= Len(faces[f].edgeIDs))

C12_MismatchLeavesDataUntouched ==
    (/\ lastOp.name = "setPuzzleData"
     /\ lastOp.expectedGridId # NoGridId
     /\ lastOp.puzzleData.gridId # lastOp.expectedGridId)
    => /\ thrown = "Error: Grid ID mismatch"
       /\ puzzleData = lastOp.before.puzzleData
       /\ gridId = lastOp.before.gridId

\* C13: setCurrentPuzzle(index) fails and leaves currentPuzzleIndex as it was when
\* no puzzle data is set or index is outside [0, puzzles.length); otherwise it
\* sets currentPuzzleIndex to index.
C13_SetCurrentPuzzle ==
    lastOp.name = "setCurrentPuzzle" =>
        IF puzzleData = NoData
        THEN thrown # NoError /\ currentPuzzleIndex = lastOp.before
        ELSE IF lastOp.puzzleIndex \in 0 .. Len(puzzleData.puzzles) - 1
        THEN thrown = NoError /\ currentPuzzleIndex = lastOp.puzzleIndex
        ELSE thrown # NoError /\ currentPuzzleIndex = lastOp.before

\* C13 witness: with one puzzle stored and selected, index puzzles.length was
\* refused and the selection stayed.
C13_Witness ==
    /\ lastOp.name = "setCurrentPuzzle"
    /\ puzzleData # NoData
    /\ lastOp.puzzleIndex = Len(puzzleData.puzzles)
    /\ lastOp.puzzleIndex > 0
    /\ thrown = "Error: Invalid puzzle index"
    /\ currentPuzzleIndex = lastOp.before

\* C14 as claimed: addEdge(v1, v2) with v1 or v2 not registered fails, and the
\* edges, the edge-lookup index, the next-ID counter and the incidence sets of
\* the vertices are afterwards what they were before the call.
C14_FailedAddEdgeLeavesStore ==
    Building =>
        \A v1, v2 \in 0 .. MaxVertices :
            (v1 \notin DOMAIN vertices \/ v2 \notin DOMAIN vertices) =>
                /\ addEdge(TheGrid, v1, v2, Undefined).thrown # NoError
                /\ addEdge(TheGrid, v1, v2, Undefined).g = TheGrid

\* C15 as claimed: Grid.addFace with fewer than 3 vertex IDs fails and adds no
\* face and no edge.
C15_AddFaceRejectsShortList ==
    Building =>
        \A vertexIDs \in ShortFaceLists :
            Range(vertexIDs) \subseteq DOMAIN vertices =>
                LET r == addFace(TheGrid, vertexIDs, [index |-> 0, clue |-> NoClue],
                                 Cardinality(DOMAIN faces))
                IN  r.thrown # NoError /\ r.g = TheGrid

\* C15 amended: createPolyhedron refuses a face of fewer than 3 vertex IDs before
\* it calls Grid.addFace, so the step raises an error and adds no face and no
\* edge to the grid.
C15_CreatePolyhedronRejectsShortFace ==
    [][lastOp'.name = "faceTooShort" =>
          /\ thrown' = "Error: face must have at least 3 vertices"
          /\ UNCHANGED gridVars]_vars

\* C15 witness: a face of two vertices was refused after another face was added.
C15_Witness ==
    /\ lastOp.name = "faceTooShort"
    /\ lastOp.numVertices = 2
    /\ thrown = "Error: face must have at least 3 vertices"
    /\ DOMAIN faces # {}

(***************************************************************************)
(* Properties of play                                                      *)
(***************************************************************************)
Clicked == lastOp.name = "handleEdgeClick"

\* EDGE_STATES in order: the state after each state on a forward click, and
\* the state before it.
ForwardOf == <<FilledIn, RuledOut, Unknown>>
ReverseOf == <<RuledOut, Unknown, FilledIn>>

\* C16: every edge starts Unknown; a forward click moves the clicked edge
\* Unknown -> Filled -> RuledOut -> Unknown, a shift-click moves it the other
\* way round and no other edge changes; so userGuess is always 0, 1 or 2,
\* three forward clicks restore a state, and a reverse click undoes a forward one.
C16_EdgeCycle ==
    /\ lastOp = NoOp => \A e \in DOMAIN edges : edges[e].userGuess = Unknown
    /\ \A e \in DOMAIN edges : edges[e].userGuess \in {Unknown, FilledIn, RuledOut}
    /\ Clicked =>
          edges[lastOp.edgeId].userGuess =
              At0(IF lastOp.shiftKey THEN ReverseOf ELSE ForwardOf, lastOp.was)
    /\ \A e \in DOMAIN edges :
          LET u == edges[e].userGuess
          IN  /\ cycleEdgeState(cycleEdgeState(cycleEdgeState(u, FALSE), FALSE), FALSE) = u
              /\ cycleEdgeState(cycleEdgeState(u, FALSE), TRUE) = u

\* Three forward clicks on one edge have brought the game back to all Unknown.
C16_Witness ==
    /\ Clicked
    /\ clicks = 3
    /\ ~lastOp.shiftKey
    /\ lastOp.was = RuledOut
    /\ \A e \in DOMAIN edges : edges[e].userGuess = Unknown

\* C17: checkUserSolution, called with puzzle data set in any of its three
\* ways (passive for a toggled edge, passive with no edge, active with no
\* edge), completes for every userGuess assignment: a vertex-degree or
\* face-clue violation is a result, never an exception.
C17_CheckNeverRaises ==
    Checked /\ puzzleData # NoData => thrown = NoError

\* A passive check scoped to one edge has just run.
PassiveFor(e) ==
    /\ Checked
    /\ ~lastOp.isActiveMode
    /\ lastOp.edgeId = e

\* C18: the passive check for an edge that is Filled and has an endpoint on
\* more than 2 Filled edges reports a violation (status failed, the
\* self-intersection logged, the edge painted as an error); for an edge that
\* is not Filled it looks at no vertex and reports no self-intersection,
\* however many Filled edges meet at its endpoints.
C18_PassiveVertexCheck ==
    \A e \in DOMAIN edges :
        PassiveFor(e) =>
            IF edges[e].userGuess = FilledIn
            THEN (\E v \in Endpoints(TheGrid, e) : Cardinality(FilledAt(v)) > 2) =>
                    /\ status = 1
                    /\ SelfIntersection \in failure
                    /\ edgeColor[e] = ErrorColor
                    /\ thrown = NoError
            ELSE /\ SelfIntersection \notin failure
                 /\ edgeColor[e] # ErrorColor

\* The passive check for a Filled edge has reported the three Filled edges at
\* one of its endpoints.
C18_Witness ==
    \E e \in DOMAIN edges :
        /\ PassiveFor(e)
        /\ edges[e].userGuess = FilledIn
        /\ \E v \in Endpoints(TheGrid, e) : Cardinality(FilledAt(v)) = 3
        /\ status = 1
        /\ SelfIntersection \in failure

RuledOutOn(f) == {e \in Range(faces[f].edgeIDs) : edges[e].userGuess = RuledOut}

\* A face whose clue the guesses on its edges already contradict.
ClueViolated(f) ==
    /\ faces[f].clue # NoClue
    /\ \/ Cardinality(FilledOn(f)) > faces[f].clue
       \/ Len(faces[f].edgeIDs) - Cardinality(RuledOutOn(f)) < faces[f].clue

ClueLogs == {ClueNotMatched, ClueExceeded, ClueUnreachable}

\* C19: the passive check for a toggled edge reports a face-clue violation
\* exactly when a face on that edge has a clue c other than -1 and either more
\* than c Filled edges or fewer than c edges not RuledOut; a face without a
\* clue, and a face not on the edge, causes none.
C19_PassiveClueCheck ==
    \A e \in DOMAIN edges :
        PassiveFor(e) =>
            /\ (failure \cap ClueLogs # {}) = (\E f \in edges[e].faceIDs : ClueViolated(f))
            /\ ClueNotMatched \notin failure
            /\ status = (IF failure = {} THEN 0 ELSE 1)
            /\ thrown = NoError

\* The passive check for an edge just ruled out has found a clue out of
\* reach on one of its faces, the other face being without a clue.
C19_Witness ==
    \E e \in DOMAIN edges :
        /\ PassiveFor(e)
        /\ edges[e].userGuess = RuledOut
        /\ failure = {ClueUnreachable}
        /\ status = 1
        /\ \E f \in edges[e].faceIDs : faces[f].clue = NoClue

\* C20: an edge toggle is followed, before the next user event is handled, by
\* the passive check scoped to the toggled edge: when handleEdgeClick is done,
\* the verdict, the logged failures and the edge colours are those that
\* check leaves for the position.
C20_ToggleIsChecked ==
    Clicked =>
        \E r \in {checkUserSolution(TheGrid, puzzleData, edgeColor, FALSE,
                                    lastOp.edgeId, lastOp.edgeId)} :
            /\ status = r.status
            /\ failure = r.failure
            /\ edgeColor = r.edgeColor

(***************************************************************************)
(* Properties of highlighting                                              *)
(***************************************************************************)
ShownOff == lastOp.name = "toggleShowSolution" /\ ~lastOp.enable

\* C21: after clearEdgeHighlights (reached by switching show-solution off)
\* every edge is drawn in the colour of its current userGuess: the unknown,
\* filled-in or ruled-out colour of EDGE_COLORS.
C21_ClearRestoresStateColours ==
    ShownOff => \A e \in DOMAIN edgeColor : edgeColor[e] = At0(StateColor, edges[e].userGuess)

\* C22: checkUserSolution (passive and active, with highlightEdgeError and
\* clearEdgeHighlights inside it), clearEdgeHighlights and
\* highlightPuzzleSolution change displayed colours only: every userGuess,
\* every clue, all adjacency and the puzzle data are as before the call.
C22_HighlightingKeepsTopology ==
    [][lastOp'.name \in {"checkUserSolution", "toggleShowSolution"}
          => UNCHANGED <<gridVars, puzzleVars>>]_vars

\* The solution has been switched off, or a self-intersection painted, in a
\* position with a filled-in edge, and edge colours have changed by it.
C22_Witness ==
    /\ \E e \in DOMAIN edges : edges[e].userGuess = FilledIn
    /\ \/ ShownOff /\ \E e \in DOMAIN edgeColor : edgeColor[e] = At0(GuessAsColor, edges[e].userGuess)
       \/ Checked /\ \E e \in DOMAIN edgeColor : edgeColor[e] = ErrorColor

(***************************************************************************)
(* Properties of the interaction handler                                   *)
(***************************************************************************)
\* The step is a click that was handled, on a target of the given kind.
HandledClickOn(kind) ==
    /\ lastOp'.name = "onMouseClick"
    /\ ~lastOp'.dropped
    /\ lastOp'.hit.kind = kind

\* C23: an edge click changes the userGuess of the clicked edge and of no
\* other edge, and leaves that edge's endpoints and faces, every clue, the
\* puzzle data and all adjacency as they were; a face click changes no
\* userGuess at all.
C23_ClickFrame ==
    [][/\ HandledClickOn("edge") =>
             /\ \A e \in DOMAIN edges : e # lastOp'.hit.id => edges'[e] = edges[e]
             /\ edges' = [edges EXCEPT ![lastOp'.hit.id].userGuess = edges'[lastOp'.hit.id].userGuess]
             /\ edges'[lastOp'.hit.id].userGuess # edges[lastOp'.hit.id].userGuess
             /\ UNCHANGED <<vertices, faces, vertexPairToEdge, nextId, puzzleVars>>
       /\ HandledClickOn("face") => UNCHANGED <<gridVars, puzzleVars>>]_vars

\* A face has been highlighted by a click after an edge was filled in.
C23_Witness ==
    /\ lastOp.name = "onMouseClick"
    /\ ~lastOp.dropped
    /\ lastOp.hit.kind = "face"
    /\ highlightedFace = lastOp.hit.id
    /\ \E e \in DOMAIN edges : edges[e].userGuess = FilledIn

\* C30: a click is dropped, changing no userGuess and no face highlight,
\* exactly when the last event before it was a controls 'change' (so a
\* 'change' has come since the later of the last 'start' and the last
\* click); every click leaves the drag flag cleared, so of two clicks in a
\* row with no 'change' between them the second is handled.
C30_DroppedClicks ==
    [][lastOp'.name = "onMouseClick" =>
          /\ lastOp'.dropped = (lastOp.name = "onControlsChange")
          /\ lastOp'.dropped => UNCHANGED <<edges, edgeColor, highlightedFace, isHighlighted>>
          /\ ~didDrag'
          /\ (lastOp.name = "onMouseClick" /\ lastOp.dropped) => ~lastOp'.dropped]_vars

\* A click on an edge has been dropped after a drag that followed a filled-in
\* edge; the edge under the mouse kept its state.
C30_Witness ==
    /\ lastOp.name = "onMouseClick"
    /\ lastOp.dropped
    /\ lastOp.hit.kind = "edge"
    /\ ~didDrag
    /\ clicks = 1
    /\ edges[lastOp.hit.id].userGuess = Unknown

(***************************************************************************)
(* Properties of loading                                                   *)
(***************************************************************************)
\* C24: when applyCurrentPuzzleClues fails on an invalid clue or on a clues
\* array longer than the face list, no face's clue differs from what it was
\* before the call (-1, as createPolyhedron sets it).
C24_FailedApplyKeepsClues ==
    (lastOp.name = "setupScene" /\ lastOp.reached = "applyCurrentPuzzleClues" /\ thrown # NoError)
        => \A f \in DOMAIN faces : faces[f].clue = NoClue

(***************************************************************************)
(* Properties of the loop trace                                            *)
(***************************************************************************)
\* The check went on to trace the route: it ended with a verdict that only
\* the trace or the single-loop test gives.
TraceEntered ==
    /\ Checked
    /\ thrown = NoError
    /\ status = 2 \/ failure \cap {IncompleteLoop, MultipleLoops, TraceRunsOn} # {}

\* The trace as the check runs it, from the first filled-in edge.
TheTrace ==
    LET startEdge == edges[FirstOf(Filled)]
    IN  traceLoop(TheGrid, startEdge.vertexIDs[1], startEdge.vertexIDs[2], FirstOf(Filled),
                  1, 2 * EdgeCount(TheGrid) + 2)

\* C25: the active check traces the route only when no vertex has more than
\* 2 Filled edges and no clue check failed, and the trace ends for every
\* userGuess assignment: back at the start vertex or at a vertex with no
\* other Filled edge, within as many steps as there are edges.
C25_TraceTerminates ==
    TraceEntered =>
        /\ \A v \in DOMAIN vertices : Cardinality(FilledAt(v)) <= 2
        /\ CluesMet
        /\ TraceRunsOn \notin failure
        /\ TheTrace.outcome \in {"closed", IncompleteLoop}
        /\ TheTrace.loopLength <= EdgeCount(TheGrid)
        /\ TheTrace.loopLength <= Cardinality(Filled)

\* The trace has stopped at a dead end after more than two steps, in a position
\* with filled-in edges it never walked.
C25_Witness ==
    /\ TraceEntered
    /\ failure = {IncompleteLoop}
    /\ TheTrace.loopLength > 2
    /\ Cardinality(Filled) > TheTrace.loopLength

(***************************************************************************)
(* Further properties of the topology store                                *)
(***************************************************************************)
\* C26: after any sequence of addVertex, addEdge and addFace calls every edge
\* has two distinct endpoints: the store holds no self-loop.
C26_NoSelfLoop ==
    \A e \in DOMAIN edges : edges[e].vertexIDs[1] # edges[e].vertexIDs[2]

\* C29: after any sequence of setPuzzleData and setCurrentPuzzle calls,
\* successful or failed, whenever puzzleData is set currentPuzzleIndex lies in
\* [0, puzzleData.puzzles.length): getCurrentPuzzle returns a puzzle.
C29_CurrentPuzzleExists ==
    puzzleData # NoData => HasCurrentPuzzle(puzzleData, currentPuzzleIndex)

\* The puzzle grid holds something: topology, puzzle data, a grid ID or a clue.
Populated ==
    \/ DOMAIN vertices # {} \/ DOMAIN edges # {} \/ DOMAIN faces # {}
    \/ puzzleData # NoData
    \/ gridId # NoGridId
    \/ lastOp.name = "setupScene"

\* C28: in createGameState, whatever the order and outcome of the two loads,
\* setupScene runs only after both have succeeded; while either is pending
\* or has failed, the puzzle grid's topology, puzzleData, gridId and clues are
\* not populated.
C28_SetupAfterBothLoads ==
    Populated => meshLoad.state = "fulfilled" /\ puzzleLoad.state = "fulfilled"

\* Both loads have succeeded and setupScene has populated the grid with clues.
C28_Witness ==
    /\ lastOp.name = "setupScene"
    /\ thrown = NoError
    /\ meshLoad.state = "fulfilled"
    /\ puzzleLoad.state = "fulfilled"
    /\ \E f \in DOMAIN faces : faces[f].clue = 3


====
